---------------------------- MODULE Spec2Model ----------------------------
(***************************************************************************)
(* A model of demos/Koules.cpp: the Koules dynamics (propagate, ode,       *)
(* update, checkCollision), the steering control sampler, the directed     *)
(* control sampler (sampleTo), the goal region and the recursive           *)
(* level-reduction (planAllLevelsRecursive, planAllLevels).                *)
(*                                                                         *)
(* Reals are fixed-point integers:                                         *)
(*   positions, radii, lengths   in units of 1/PosScale     (1e-3)         *)
(*   velocities, controls        in units of 1/PosScale per second         *)
(*   accelerations               in units of 1/PosScale per second^2       *)
(*   durations                   in units of 1/TimeScale s  (1e-2 s)       *)
(*   angles                      in units of pi/PiU         (pi/200)       *)
(*   masses                      in units of 0.25                          *)
(* A state is the flat vector of copyToReals: 4 reals per koule            *)
(* (x, y, vx, vy), then the ship's (x, y, vx, vy, theta).  Sequences are   *)
(* 1-based, so At(s, j) reads the code's s[j].                             *)
(***************************************************************************)
EXTENDS Integers, Sequences, FiniteSets, TLC

(***************************************************************************)
(* Units of the fixed-point representation.                                *)
(***************************************************************************)
PosScale == 1000
TimeScale == 100
PiU == 200
\* delta (1e-5) is finer than a position unit: DeltaScale deltas per unit.
DeltaScale == 100

(***************************************************************************)
(* Program constants (Koules.cpp lines 81-103, 468, 547).                  *)
(***************************************************************************)
sideLength == 1000
kouleMass == 2
kouleRadius == 15
shipAcceleration == 1000
shipRotVel == 200
shipMass == 3
shipRadius == 30
shipVmax == 500
shipVmin == 50
lambda_c == 4
\* h = .05, kept as its reciprocal
hInv == 20
integrationStepSize == 1
propagationStepSize == 5
propagationMinSteps == 1
propagationMaxSteps == 100
shipDelta == (shipAcceleration * propagationStepSize) \div (2 * TimeScale)
shipEps == (shipRotVel * propagationStepSize) \div (2 * TimeScale)
numAttempts == 1
delta == 1
threshold_ == 10
velBound == 10000

(***************************************************************************)
(* Bounds of the model.                                                    *)
(***************************************************************************)
\* cap on the step budget of sampleTo (the code draws it from
\* propagationMinSteps..propagationMaxSteps)
MaxSteps == 4
\* largest koule count of an instance handed to planAllLevels
MaxKoules == 2

(***************************************************************************)
(* Fixed-point arithmetic.                                                 *)
(***************************************************************************)
Abs(x) == IF x < 0 THEN -x ELSE x
Min(x, y) == IF x < y THEN x ELSE y
Max(x, y) == IF x > y THEN x ELSE y
Sgn(x) == IF x < 0 THEN -1 ELSE IF x > 0 THEN 1 ELSE 0

\* a / b rounded to the nearest unit (b > 0), symmetric about 0
RDiv(a, b) == IF a >= 0 THEN (2 * a + b) \div (2 * b)
              ELSE -((2 * (-a) + b) \div (2 * b))

\* ceil(a / b) for a >= 0, b > 0
CeilDiv(a, b) == (a + b - 1) \div b

\* sqrt rounded to the nearest unit
RECURSIVE SqrtIter(_, _, _)
SqrtIter(n, lo, hi) ==
    IF lo >= hi THEN lo
    ELSE LET mid == (lo + hi + 1) \div 2
         IN IF mid * mid <= n THEN SqrtIter(n, mid, hi)
            ELSE SqrtIter(n, lo, mid - 1)

Sqrt(n) == LET f == SqrtIter(n, 0, 2 * sideLength)
           IN IF n - f * f > f THEN f + 1 ELSE f

\* fmod(v, m): the remainder has the sign of v
FMod(v, m) == Sgn(v) * (Abs(v) % m)

\* PosScale * sin(a), a in angle units (Bhaskara's rational approximation,
\* exact at the multiples of pi/2 and pi/6)
SinU(a) ==
    LET r == a % (2 * PiU)
        x == IF r > PiU THEN r - PiU ELSE r
        p == x * (PiU - x)
        s == RDiv(4 * PosScale * p, ((5 * PiU * PiU) \div 4) - p)
    IN IF r > PiU THEN -s ELSE s

CosU(a) == SinU(a + (PiU \div 2))

\* atan(num/den) in angle units for 0 <= num <= den, den > 0
\* (atan z ~ z / (1 + 0.28 z^2))
AtanFrac(num, den) == RDiv(8 * PiU * num * den, 25 * den * den + 7 * num * num)

\* atan2(y, x) in angle units, in (-PiU, PiU]
Atan2U(y, x) ==
    LET k == (Max(Abs(x), Abs(y)) \div PosScale) + 1
        ax == Abs(x) \div k
        ay == Abs(y) \div k
        base == IF ax = 0 /\ ay = 0 THEN (IF Abs(x) >= Abs(y) THEN 0 ELSE (PiU \div 2))
                ELSE IF ay <= ax THEN AtanFrac(ay, ax)
                ELSE (PiU \div 2) - AtanFrac(ax, ay)
    IN IF x = 0 /\ y = 0 THEN 0
       ELSE IF x >= 0 THEN Sgn(y) * base
       ELSE IF y >= 0 THEN PiU - base
       ELSE base - PiU

(***************************************************************************)
(* State layout (KoulesStateSpace).                                        *)
(***************************************************************************)
At(s, j) == s[j + 1]

\* (getDimension() - 5) / 4
NumKoulesOf(s) == (Len(s) - 5) \div 4

\* s with the code's entry j replaced by v
Put(s, j, v) == [s EXCEPT ![j + 1] = v]

getMass(numKoules, i) == IF i = numKoules THEN shipMass ELSE kouleMass
getRadius(numKoules, i) == IF i = numKoules THEN shipRadius ELSE kouleRadius

\* the bounds set by the KoulesStateSpace constructor, entry j of a
\* numKoules-koule state (entry 4 * numKoules + 4 is the heading, SO(2))
boundsLow(numKoules, j) ==
    IF j = 4 * numKoules + 4 THEN -PiU
    ELSE IF j % 4 >= 2 THEN -velBound
    ELSE IF j < 4 * numKoules THEN -kouleRadius
    ELSE shipRadius

boundsHigh(numKoules, j) ==
    IF j = 4 * numKoules + 4 THEN PiU
    ELSE IF j % 4 >= 2 THEN velBound
    ELSE IF j < 4 * numKoules THEN sideLength + kouleRadius
    ELSE sideLength - shipRadius

\* isStateValid: si->satisfiesBounds(state)
isStateValid(s) ==
    \A j \in 0..(Len(s) - 1) :
        /\ At(s, j) >= boundsLow(NumKoulesOf(s), j)
        /\ At(s, j) <= boundsHigh(NumKoulesOf(s), j)

(***************************************************************************)
(* Goal region (KoulesGoal).                                               *)
(***************************************************************************)
RECURSIVE distanceGoalLoop(_, _, _)
distanceGoalLoop(v, i, minDist) ==
    IF i >= NumKoulesOf(v) THEN minDist
    ELSE LET minX == Min(At(v, 4 * i), sideLength - At(v, 4 * i))
             minY == Min(At(v, 4 * i + 1), sideLength - At(v, 4 * i + 1))
         IN distanceGoalLoop(v, i + 1,
                Min(minDist, Min(minX, minY) - kouleRadius + threshold_))

\* distanceGoal without the clamp of lines 564-565
distanceGoalNoClamp(st) == distanceGoalLoop(st, 0, sideLength)

\* distanceGoal: the loop of lines 560-563 from minDist = sideLength, then
\* the clamp
distanceGoal(st) ==
    LET minDist == distanceGoalLoop(st, 0, sideLength)
    IN IF minDist < 0 THEN 0 ELSE minDist

\* GoalRegion::isSatisfied
isSatisfied(st) == distanceGoal(st) <= threshold_

(***************************************************************************)
(* Dynamics (KoulesStatePropagator).  The propagator's scratch members     *)
(* are the record m = [q, qdot, hasCollision]; hasCollision is indexed     *)
(* 0..numKoules through At.  A time step dt = duration / numSteps is the   *)
(* pair <<duration, numSteps * TimeScale>>.                                *)
(***************************************************************************)
\* x * dt
TimesDt(x, dt) == RDiv(x * dt[1], dt[2])

\* signedSO2Distance without the two wraps
signedSO2DistanceNoWrap(x, y) == x - y

\* lightweight signed SO(2) distance; assumes x and y are in [-pi, pi]
signedSO2Distance(x, y) ==
    LET d0 == x - y
    IN IF d0 < -PiU THEN d0 + 2 * PiU
       ELSE IF d0 > PiU THEN d0 - 2 * PiU
       ELSE d0

\* bangBang thrusting in the turning branches too
bangBangThrustAndTurn(q, cval, numKoules) ==
    LET offset == 4 * numKoules
        v0 == cval[1] - At(q, offset + 2)
        v1 == cval[2] - At(q, offset + 3)
        deltaTheta == signedSO2Distance(Atan2U(v1, v0), At(q, offset + 4))
        thrust0 == RDiv(shipAcceleration * CosU(At(q, offset + 4)), PosScale)
        thrust1 == RDiv(shipAcceleration * SinU(At(q, offset + 4)), PosScale)
    IN IF v0 * v0 + v1 * v1 > shipDelta * shipDelta
       THEN IF Abs(deltaTheta) < shipEps THEN << thrust0, thrust1, 0 >>
            ELSE IF deltaTheta > 0 THEN << thrust0, thrust1, shipRotVel >>
            ELSE << thrust0, thrust1, -shipRotVel >>
       ELSE << 0, 0, 0 >>

\* the bang-bang command u = (u[0], u[1], u[2]) derived in propagate
bangBang(q, cval, numKoules) ==
    LET offset == 4 * numKoules
        v0 == cval[1] - At(q, offset + 2)
        v1 == cval[2] - At(q, offset + 3)
        deltaTheta == signedSO2Distance(Atan2U(v1, v0), At(q, offset + 4))
    IN IF v0 * v0 + v1 * v1 > shipDelta * shipDelta
       THEN IF Abs(deltaTheta) < shipEps
            THEN << RDiv(shipAcceleration * CosU(At(q, offset + 4)), PosScale),
                    RDiv(shipAcceleration * SinU(At(q, offset + 4)), PosScale),
                    0 >>
            ELSE IF deltaTheta > 0 THEN << 0, 0, shipRotVel >>
            ELSE << 0, 0, -shipRotVel >>
       ELSE << 0, 0, 0 >>

\* ode: every entry of qdot is written
ode(m, u, numKoules) ==
    LET offset == 4 * numKoules
        q == m.q
    IN [m EXCEPT !.qdot =
          [k \in 1..(offset + 5) |->
             LET j == k - 1
             IN IF j < offset
                THEN IF j % 4 < 2 THEN At(q, j + 2)
                     ELSE ((sideLength \div 2) - At(q, j - 2)) * lambda_c
                          - RDiv(At(q, j), hInv)
                ELSE IF j < offset + 2 THEN At(q, j + 2)
                ELSE u[j - offset - 1]]]

\* collisionResponse with massB for massA in bNormalPrime
collisionResponseOneMass(a, b, massA, massB) ==
    LET dx == a[1] - b[1]
        dy == a[2] - b[2]
        dsq == dx * dx + dy * dy
        aN == dx * a[3] + dy * a[4]
        aT == (-dy) * a[3] + dx * a[4]
        bN == dx * b[3] + dy * b[4]
        bT == (-dy) * b[3] + dx * b[4]
        aNP == aN * (massA - massB) + 2 * massB * bN
        bNP == bN * (massB - massA) + 2 * massB * aN
        M == massA + massB
    IN [den |-> dsq * M,
        aNewNum |-> << dx * aNP + (-dy) * aT * M, dy * aNP + dx * aT * M >>,
        bNewNum |-> << dx * bNP + (-dy) * bT * M, dy * bNP + dx * bT * M >>,
        aT |-> aT, bT |-> bT, dx |-> dx, dy |-> dy, dsq |-> dsq]

\* the elastic response of checkCollision for bodies a, b (4 reals each)
\* of masses massA, massB.  The code's velocities are the quotients of the
\* numerators below by den: with dist = sqrt(dsq),
\*   aNormal = aN / dist,  aTangentPrime = aT / dist,
\*   aNormalPrime = aNP / (dist * (massA + massB)),
\*   aNewVel = aNewNum / den,   den = dsq * (massA + massB).
collisionResponse(a, b, massA, massB) ==
    LET dx == a[1] - b[1]
        dy == a[2] - b[2]
        dsq == dx * dx + dy * dy
        aN == dx * a[3] + dy * a[4]
        aT == (-dy) * a[3] + dx * a[4]
        bN == dx * b[3] + dy * b[4]
        bT == (-dy) * b[3] + dx * b[4]
        aNP == aN * (massA - massB) + 2 * massB * bN
        bNP == bN * (massB - massA) + 2 * massA * aN
        M == massA + massB
    IN [den |-> dsq * M,
        aNewNum |-> << dx * aNP + (-dy) * aT * M, dy * aNP + dx * aT * M >>,
        bNewNum |-> << dx * bNP + (-dy) * bT * M, dy * bNP + dx * bT * M >>,
        aT |-> aT, bT |-> bT, dx |-> dx, dy |-> dy, dsq |-> dsq]

\* the test of checkCollision: close enough and moving closer
collides(a, b, radA, radB) ==
    LET dx == a[1] - b[1]
        dy == a[2] - b[2]
        dist == dx * dx + dy * dy
        minDist == (radA + radB) * DeltaScale + delta
    IN /\ dist < CeilDiv(minDist * minDist, DeltaScale * DeltaScale)
       /\ (b[3] - a[3]) * dx + (b[4] - a[4]) * dy > 0

Block(q, i) == SubSeq(q, 4 * i + 1, 4 * i + 4)

PutBlock(q, i, blk) ==
    [k \in 1..Len(q) |-> IF k > 4 * i /\ k <= 4 * i + 4 THEN blk[k - 4 * i] ELSE q[k]]

\* checkCollision(i, j, dt): [hit, q, resp], resp the velocities computed
\* when the pair collides
checkCollision(q, i, j, dt, numKoules) ==
    LET a == Block(q, i)
        b == Block(q, j)
    IN IF collides(a, b, getRadius(numKoules, i), getRadius(numKoules, j))
       THEN LET c == collisionResponse(a, b, getMass(numKoules, i),
                                       getMass(numKoules, j))
                aNewVel == << RDiv(c.aNewNum[1], c.den), RDiv(c.aNewNum[2], c.den) >>
                bNewVel == << RDiv(c.bNewNum[1], c.den), RDiv(c.bNewNum[2], c.den) >>
                a2 == << a[1] + TimesDt(aNewVel[1], dt), a[2] + TimesDt(aNewVel[2], dt),
                         aNewVel[1], aNewVel[2] >>
                b2 == << b[1] + TimesDt(bNewVel[1], dt), b[2] + TimesDt(bNewVel[2], dt),
                         bNewVel[1], bNewVel[2] >>
            IN [hit |-> TRUE, q |-> PutBlock(PutBlock(q, i, a2), j, b2),
                resp |-> c]
       ELSE [hit |-> FALSE, q |-> q]

\* the pair loop of update, from pair (i, j) on, in the code's order
RECURSIVE collisionLoop(_, _, _, _, _)
collisionLoop(m, i, j, dt, numKoules) ==
    IF i >= numKoules THEN m
    ELSE IF j > numKoules THEN collisionLoop(m, i + 1, i + 2, dt, numKoules)
    ELSE LET marked(mm, c) ==
                 IF c.hit
                 THEN [mm EXCEPT !.q = c.q,
                                 !.hasCollision = [k \in 1..(numKoules + 1) |->
                                     IF k = i + 1 \/ k = j + 1 THEN TRUE
                                     ELSE mm.hasCollision[k]]]
                 ELSE mm
             \* m and the outcome of checkCollision are computed once:
             \* CHOOSE v \in { F(x) : x \in { e } } : TRUE is F(e)
             pair(mm) ==
                 CHOOSE v \in { collisionLoop(marked(mm, c), i, j + 1, dt, numKoules) :
                                c \in { checkCollision(mm.q, i, j, dt, numKoules) } } : TRUE
         IN CHOOSE v \in { pair(mm) : mm \in { m } } : TRUE

\* update without the std::fill of line 447
updateKeepsFlags(m, dt, numKoules) ==
    LET advance(m1) ==
            [m1 EXCEPT !.q =
               [k \in 1..Len(m1.q) |->
                  LET body == IF k > 4 * numKoules THEN numKoules ELSE (k - 1) \div 4
                  IN IF At(m1.hasCollision, body) THEN m1.q[k]
                     ELSE m1.q[k] + TimesDt(m1.qdot[k], dt)]]
    IN CHOOSE v \in { advance(m1) :
                      m1 \in { collisionLoop(m, 0, 1, dt, numKoules) } } : TRUE

\* update(dt): the collision loop, then the Euler step of the bodies
\* that did not collide
update(m, dt, numKoules) ==
    LET advance(m1) ==
            [m1 EXCEPT !.q =
               [k \in 1..Len(m1.q) |->
                  LET body == IF k > 4 * numKoules THEN numKoules ELSE (k - 1) \div 4
                  IN IF At(m1.hasCollision, body) THEN m1.q[k]
                     ELSE m1.q[k] + TimesDt(m1.qdot[k], dt)]]
    IN CHOOSE v \in { advance(m1) :
                      m1 \in { collisionLoop([m EXCEPT !.hasCollision =
                                                [k \in 1..(numKoules + 1) |-> FALSE]],
                                             0, 1, dt, numKoules) } } : TRUE

\* the loop of lines 398-404: n times ode, then update
RECURSIVE integrate(_, _, _, _, _)
integrate(m, u, dt, n, numKoules) ==
    IF n = 0 THEN m
    ELSE LET step(m0) ==
                 CHOOSE v \in { update(m1, dt, numKoules) :
                                m1 \in { ode(m0, u, numKoules) } } : TRUE
         IN CHOOSE v \in { integrate(m2, u, dt, n - 1, numKoules) :
                           m2 \in { step(m0) : m0 \in { m } } } : TRUE

\* SO2StateSpace::enforceBounds
enforceBounds(v) ==
    LET w == FMod(v, 2 * PiU)
    IN IF w <= -PiU THEN w + 2 * PiU
       ELSE IF w > PiU THEN w - 2 * PiU
       ELSE w

\* propagate without the enforceBounds of lines 417-419
propagateNoNormalize(m, start, control, duration) ==
    LET numKoules == NumKoulesOf(start)
        numSteps == CeilDiv(duration, integrationStepSize)
        dt == << duration, numSteps * TimeScale >>
        finish(m1) == [result |-> m1.q, m |-> m1]
        run(u) ==
            CHOOSE v \in { finish(m1) :
                           m1 \in { integrate([m EXCEPT !.q = start], u, dt,
                                              numSteps, numKoules) } } : TRUE
    IN CHOOSE v \in { run(u) : u \in { bangBang(start, control, numKoules) } } : TRUE

\* propagate(start, control, duration, result) on scratch m:
\* [result, m], m the scratch members it leaves behind
propagate(m, start, control, duration) ==
    LET numKoules == NumKoulesOf(start)
        numSteps == CeilDiv(duration, integrationStepSize)
        dt == << duration, numSteps * TimeScale >>
        finish(m1) ==
            [result |-> Put(m1.q, 4 * numKoules + 4,
                            enforceBounds(At(m1.q, 4 * numKoules + 4))),
             m |-> m1]
        run(u) ==
            CHOOSE v \in { finish(m1) :
                           m1 \in { integrate([m EXCEPT !.q = start], u, dt,
                                              numSteps, numKoules) } } : TRUE
    IN CHOOSE v \in { run(u) : u \in { bangBang(start, control, numKoules) } } : TRUE

\* the scratch members after construction
newScratch(numKoules) ==
    [q |-> [k \in 1..(4 * numKoules + 5) |-> 0],
     qdot |-> [k \in 1..(4 * numKoules + 5) |-> 0],
     hasCollision |-> [k \in 1..(numKoules + 1) |-> FALSE]]

(***************************************************************************)
(* Control sampling (KoulesControlSampler).  The draws of rng_ are         *)
(* arguments: r a magnitude of [shipVmin, shipVmax], theta an angle.       *)
(***************************************************************************)
\* sample(control)
sample(r, theta) ==
    << RDiv(r * CosU(theta), PosScale), RDiv(r * SinU(theta), PosScale) >>

\* steer(control, state, x, y)
\* steer reading the first koule's position in place of the ship's
steerFromFirstKoule(state, x, y, r, theta) ==
    LET dx == x - At(state, 0)
        dy == y - At(state, 1)
        xNrm2 == dx * dx + dy * dy
    IN IF xNrm2 > 0
       THEN << RDiv(r * dx, Sqrt(xNrm2)), RDiv(r * dy, Sqrt(xNrm2)) >>
       ELSE sample(r, theta)

steer(state, x, y, r, theta) ==
    LET dim == Len(state)
        dx == x - At(state, dim - 5)
        dy == y - At(state, dim - 4)
        xNrm2 == dx * dx + dy * dy
    IN IF xNrm2 > 0
       THEN << RDiv(r * dx, Sqrt(xNrm2)), RDiv(r * dy, Sqrt(xNrm2)) >>
       ELSE sample(r, theta)

(***************************************************************************)
(* State of the model.                                                     *)
(*   sampleTo:   pc, source, control, dest, alloc, temp1, temp2, i, r,     *)
(*               steps, ret, scratch, calls                                *)
(*   planAllLevels: mainPc, stack, solution, out, setups, levelLog         *)
(*   checkCollision: collPc, collQ, collPair, collOut                      *)
(*   one operation on its own: fnPc, fn, fnArgs, fnOut, fnScratch          *)
(***************************************************************************)
VARIABLES
    pc,       \* position in sampleTo: "call", "loop", "done" ("off": not running)
    source,   \* *source
    control,  \* *control
    dest,     \* *dest
    alloc,    \* the state of si_->allocState() (<<>> when not allocated)
    temp1,    \* what temp1 points to: "dest" or "alloc"
    temp2,    \* what temp2 points to
    i,        \* the loop variable of sampleTo
    r,        \* r of sampleTo
    steps,    \* the step budget
    ret,      \* the value returned (-1: none yet)
    scratch,  \* the scratch members of the state propagator
    calls,    \* number of calls of propagate made by sampleTo
    mainPc,   \* position in planAllLevels: "start", "running", "returned",
              \* "written", "crashed", "aborted" ("off": not running)
    stack,    \* the frames of planAllLevelsRecursive, outermost first
    solution, \* the vector solution that the frames share
    out,      \* what planAllLevels printed to the output file
    setups,   \* the depths whose ssNext is allocated and not deleted
    levelLog, \* the outcome of every call of ss->solve, in order
    collPc,   \* position of a call of checkCollision: "call", "done"
              \* ("off": not running)
    collQ,    \* the scratch vector q of the call
    collPair, \* the arguments << i, j >> of the call
    collOut,  \* the outcome: [hit, q, resp], resp the velocities computed
    fnPc,     \* position of a call of one operation on its own: "call",
              \* "done" ("off": not running)
    fn,       \* the operation called
    fnArgs,   \* its arguments
    fnOut,    \* what it returned or wrote
    fnScratch \* the scratch members of the propagator it was called on

sampleVars == << pc, source, control, dest, alloc, temp1, temp2, i, r, steps,
                 ret, scratch, calls >>

planVars == << mainPc, stack, solution, out, setups, levelLog >>

collVars == << collPc, collQ, collPair, collOut >>

callVars == << fnPc, fn, fnArgs, fnOut, fnScratch >>

vars == << sampleVars, planVars, collVars, callVars >>

\* the sampler is not running
SampleOff ==
    /\ pc = "off"
    /\ source = << >>
    /\ control = << >>
    /\ dest = << >>
    /\ alloc = << >>
    /\ temp1 = "dest"
    /\ temp2 = "dest"
    /\ i = 0
    /\ r = 0
    /\ steps = 0
    /\ ret = -1
    /\ scratch = newScratch(0)
    /\ calls = 0

\* the planner is not running
PlanOff ==
    /\ mainPc = "off"
    /\ stack = << >>
    /\ solution = << >>
    /\ out = << >>
    /\ setups = {}
    /\ levelLog = << >>

\* no call of checkCollision is observed
CollOff ==
    /\ collPc = "off"
    /\ collQ = << >>
    /\ collPair = << 0, 0 >>
    /\ collOut = [hit |-> FALSE]

\* no operation is called on its own
CallOff ==
    /\ fnPc = "off"
    /\ fn = "none"
    /\ fnArgs = << >>
    /\ fnOut = << >>
    /\ fnScratch = newScratch(0)

(***************************************************************************)
(* sampleTo (KoulesDirectedControlSampler).                                *)
(***************************************************************************)
\* the inputs of a call: source states (valid, as the planner's tree
\* states are), targets, and the draws of the random generator
SampleSources ==
    { << kx, 500, kvx, 0, sh[1], 500, sh[2], 0, sh[3] >> :
        kx \in {40, 60, 110}, kvx \in {-400, -1000, -2000},
        sh \in { << 500, 0, 0 >>, << 60, -500, 200 >>, << 85, -500, 200 >> } }
    \cup { << 520, 500, 0, 0, 60, 500, -400, 0, 480, 500, 500, 0, 0 >> }

SampleTargets == { << 900, 500 >>, << 500, 500 >> }
SampleMagnitudes == { shipVmin, shipVmax }
SampleAngles == { 0, PiU \div 2 }

\* the content of the state pointed to by a temp pointer
Deref(p, d, a) == IF p = "dest" THEN d ELSE a

InitSample ==
    /\ pc = "call"
    /\ source \in SampleSources
    /\ \E t \in SampleTargets :
          dest = Put(Put(source, Len(source) - 5, t[1]), Len(source) - 4, t[2])
    /\ control = << 0, 0 >>
    /\ alloc = << >>
    /\ temp1 = "dest"
    /\ temp2 = "dest"
    /\ i = 0
    /\ r = 0
    /\ steps \in propagationMinSteps..Min(MaxSteps, propagationMaxSteps)
    /\ ret = -1
    /\ scratch = newScratch(NumKoulesOf(source))
    /\ calls = 0
    /\ PlanOff
    /\ CollOff
    /\ CallOff

\* firstOutcome with the copy of line 346 left out
firstOutcomeNoCopy(result, src) ==
    IF isSatisfied(result) THEN [dest |-> result, ret |-> 1, go |-> FALSE]
    ELSE IF isStateValid(result) THEN [dest |-> result, ret |-> -1, go |-> TRUE]
    ELSE [dest |-> result, ret |-> 0, go |-> FALSE]

\* lines 309-313 and 341-348: what sampleTo makes of the first step's
\* result (go: the loop is entered)
firstOutcome(result, src) ==
    IF isSatisfied(result) THEN [dest |-> result, ret |-> 1, go |-> FALSE]
    ELSE IF isStateValid(result) THEN [dest |-> result, ret |-> -1, go |-> TRUE]
    ELSE [dest |-> src, ret |-> 0, go |-> FALSE]

\* lines 298-313 and 341-348: steer, the first step of propagation and
\* its three outcomes
SampleToFirst ==
    /\ pc = "call"
    /\ \E mag \in SampleMagnitudes, theta \in SampleAngles :
       \E c \in { steer(source, At(dest, Len(source) - 5),
                        At(dest, Len(source) - 4), mag, theta) } :
       \E p \in { propagate(scratch, source, c, propagationStepSize) } :
       \E o \in { firstOutcome(p.result, source) } :
         LET dim == Len(source)
         IN /\ control' = c
            /\ scratch' = p.m
            /\ calls' = calls + 1
            /\ dest' = o.dest
            /\ ret' = o.ret
            /\ IF o.go
               THEN /\ temp1' = "dest"
                    /\ temp2' = "alloc"
                    /\ alloc' = [k \in 1..dim |-> 0]
                    /\ r' = steps
                    /\ i' = 1
                    /\ pc' = "loop"
               ELSE /\ pc' = "done"
                    /\ UNCHANGED << alloc, temp1, temp2, i, r >>
    /\ UNCHANGED << source, steps >>
    /\ UNCHANGED << planVars, collVars, callVars >>

\* loopOutcome counting the invalid step of line 330 (r = i + 1)
loopOutcomeCountsInvalid(d, a, t1, t2, ii) ==
    IF isSatisfied(d)
    THEN [kind |-> "goal", dest |-> Deref(t2, d, a), ret |-> ii + 1]
    ELSE IF isStateValid(Deref(t2, d, a))
    THEN [kind |-> "swap", dest |-> d, ret |-> -1]
    ELSE [kind |-> "break", dest |-> Deref(t2, d, a), ret |-> ii + 1]

\* lines 319-332: what iteration ii of the loop makes of the states d
\* (*dest) and a (the allocated state) that propagate left, temp1 and
\* temp2 pointing as t1 and t2 say.  "goal": lines 321-323, "swap": line
\* 326, "break": lines 330-331 followed by lines 336-339
loopOutcome(d, a, t1, t2, ii) ==
    IF isSatisfied(d)
    THEN [kind |-> "goal", dest |-> Deref(t2, d, a), ret |-> ii + 1]
    ELSE IF isStateValid(Deref(t2, d, a))
    THEN [kind |-> "swap", dest |-> d, ret |-> -1]
    ELSE [kind |-> "break", dest |-> Deref(t1, d, a), ret |-> ii]

\* lines 316-333 (one iteration of the loop), and for the break of line
\* 331 the lines 336-339 that follow it
SampleToStep ==
    /\ pc = "loop"
    /\ i < steps
    /\ \E p \in { propagate(scratch, Deref(temp1, dest, alloc), control,
                            propagationStepSize) } :
       \* the two states after propagate wrote *temp2
       \E d \in { IF temp2 = "dest" THEN p.result ELSE dest } :
       \E a \in { IF temp2 = "alloc" THEN p.result ELSE alloc } :
       \E o \in { loopOutcome(d, a, temp1, temp2, i) } :
          /\ scratch' = p.m
          /\ calls' = calls + 1
          /\ dest' = o.dest
          /\ ret' = o.ret
          /\ IF o.kind = "swap"
             THEN /\ alloc' = a
                  /\ temp1' = temp2
                  /\ temp2' = temp1
                  /\ i' = i + 1
                  /\ UNCHANGED << pc, r >>
             ELSE /\ alloc' = << >>
                  /\ r' = IF o.kind = "break" THEN i ELSE r
                  /\ pc' = "done"
                  /\ UNCHANGED << temp1, temp2, i >>
    /\ UNCHANGED << source, control, steps >>
    /\ UNCHANGED << planVars, collVars, callVars >>

\* lines 336-339 after the loop ran out of steps
SampleToEnd ==
    /\ pc = "loop"
    /\ i >= steps
    /\ dest' = Deref(temp1, dest, alloc)
    /\ alloc' = << >>
    /\ ret' = r
    /\ pc' = "done"
    /\ UNCHANGED << source, control, temp1, temp2, i, r, steps, scratch, calls >>
    /\ UNCHANGED << planVars, collVars, callVars >>

NextSample == SampleToFirst \/ SampleToStep \/ SampleToEnd

SpecSample == InitSample /\ [][NextSample]_vars

(***************************************************************************)
(* Claims about sampleTo.                                                  *)
(***************************************************************************)
\* the states of n successive single-step propagations from src under ctl
RECURSIVE trajectoryFrom(_, _, _)
trajectoryFrom(src, ctl, n) ==
    IF n = 0 THEN << >>
    ELSE CHOOSE v \in { << nxt >> \o trajectoryFrom(nxt, ctl, n - 1) :
                        nxt \in { propagate(newScratch(NumKoulesOf(src)), src, ctl,
                                            propagationStepSize).result } } : TRUE

\* step k is the first whose state satisfies the goal, all earlier valid
FirstGoalAt(traj, k) ==
    /\ isSatisfied(traj[k])
    /\ \A j \in 1..(k - 1) : ~isSatisfied(traj[j]) /\ isStateValid(traj[j])

\* C1: when the state of step k (1 <= k <= budget) is the first that
\* satisfies the goal, all earlier states valid, sampleTo returns k, dest
\* is the state after step k and no step k + 1 was made.
C1_EarlyExit ==
    pc = "done" =>
        \A traj \in { trajectoryFrom(source, control, steps) } :
           \A k \in 1..steps :
              FirstGoalAt(traj, k) => ret = k /\ dest = traj[k] /\ calls <= k

\* C2 as claimed: when the first step's state is invalid, sampleTo returns 0
\* and dest is the source state.
C2_FirstInvalid ==
    pc = "done" =>
        \A traj \in { trajectoryFrom(source, control, 1) } :
           ~isStateValid(traj[1]) => ret = 0 /\ dest = source

\* C2 as amended: when the first step's state is invalid and does not satisfy
\* the goal, sampleTo returns 0 and dest is the source state.
C2_FirstInvalidNoGoal ==
    pc = "done" =>
        \A traj \in { trajectoryFrom(source, control, 1) } :
           ~isStateValid(traj[1]) /\ ~isSatisfied(traj[1])
              => ret = 0 /\ dest = source /\ calls = 1

C2_Witness ==
    /\ pc = "done"
    /\ ret = 0
    /\ dest = source
    /\ \A traj \in { trajectoryFrom(source, control, 1) } :
          ~isStateValid(traj[1]) /\ ~isSatisfied(traj[1]) /\ traj[1] # source

\* steps 1..n are valid and none satisfies the goal; step n + 1 is invalid
FirstInvalidAfter(traj, n) ==
    /\ \A j \in 1..n : isStateValid(traj[j]) /\ ~isSatisfied(traj[j])
    /\ ~isStateValid(traj[n + 1])

\* C3 as claimed: when step n + 1 (n >= 1) is the first invalid one and no
\* earlier step satisfied the goal, sampleTo returns n and dest is the state
\* after step n.
C3_DiscardInvalid ==
    pc = "done" =>
        \A traj \in { trajectoryFrom(source, control, steps) } :
           \A n \in 1..(steps - 1) :
              FirstInvalidAfter(traj, n) => ret = n /\ dest = traj[n]

\* C3 as amended: ... and the state of step n + 1 does not satisfy the goal
\* either.
C3_DiscardInvalidNoGoal ==
    pc = "done" =>
        \A traj \in { trajectoryFrom(source, control, steps) } :
           \A n \in 1..(steps - 1) :
              FirstInvalidAfter(traj, n) /\ ~isSatisfied(traj[n + 1])
                 => ret = n /\ dest = traj[n] /\ calls = n + 1

C3_Witness ==
    /\ pc = "done"
    /\ ret >= 2
    /\ ret < steps
    /\ \A traj \in { trajectoryFrom(source, control, steps) } :
          /\ FirstInvalidAfter(traj, ret)
          /\ ~isSatisfied(traj[ret + 1])
          /\ dest = traj[ret]

\* C17 as claimed: for a valid source, the state sampleTo leaves in dest
\* is valid, whatever it returns.
C17_DestValid ==
    (pc = "done" /\ isStateValid(source)) => isStateValid(dest)

\* C17 as amended: for a valid source, the state sampleTo leaves in dest
\* is valid unless it satisfies the goal; a state that satisfies the goal
\* is returned (with a count of at least 1) without a validity test.
C17_DestValidOrGoal ==
    (pc = "done" /\ isStateValid(source)) =>
        \/ isStateValid(dest)
        \/ isSatisfied(dest) /\ ret >= 1

\* the loop stopped at an invalid state and dest is the valid one before
C17_Witness ==
    /\ pc = "done"
    /\ isStateValid(source)
    /\ ret >= 1
    /\ ret < steps
    /\ calls = ret + 1
    /\ isStateValid(dest)
    /\ ~isSatisfied(dest)
    /\ dest # source

\* C18: the count n sampleTo returns satisfies 0 <= n <= budget, and dest
\* is the state after n single-step propagations from source under the
\* control (the source itself for n = 0).
C18_DestIsStepN ==
    pc = "done" =>
        /\ 0 <= ret
        /\ ret <= steps
        /\ \A traj \in { trajectoryFrom(source, control, steps) } :
              dest = (IF ret = 0 THEN source ELSE traj[ret])

\* the whole budget of at least three steps was used
C18_Witness ==
    /\ pc = "done"
    /\ ret = steps
    /\ steps >= 3
    /\ dest # source
    /\ \A traj \in { trajectoryFrom(source, control, steps) } :
          dest = traj[steps] /\ dest # traj[steps - 1]

(***************************************************************************)
(* Level reduction (planAllLevelsRecursive, planAllLevels).                *)
(*                                                                         *)
(* A frame of planAllLevelsRecursive is a record                           *)
(*   n, start   ss: its koule count and start state                        *)
(*   at         "loop" (line 747), "solved" (line 758), "path" (line 763), *)
(*              "reduced" (line 784), "called" (line 790)                  *)
(*   i          the loop variable (the attempt)                            *)
(*   status     of ss->solve: "exact", "approximate", "none"               *)
(*   path       << >> for a null PathPtr, else << the path >>              *)
(*   s, nextStart   the vectors of lines 761-780                           *)
(* A path is a record [n, final, approximate, interpolated, depth]: the    *)
(* koule count of its state space, its last state, whether the planner     *)
(* reported it approximate, whether interpolate() ran, and the depth of    *)
(* the frame that planned it.  The wall-clock budget (maxTime) only        *)
(* decides what ss->solve returns, which is any outcome here.              *)
(***************************************************************************)
\* retained with the margin itself counted as inside
retainedOnMargin(x, y) ==
    Min(x, y) >= kouleRadius /\ Max(x, y) <= sideLength - kouleRadius

\* retained with min and max exchanged
retainedMinMaxSwapped(x, y) ==
    Max(x, y) > kouleRadius /\ Min(x, y) < sideLength - kouleRadius

\* the retention test of line 775 on a koule at (x, y)
retained(x, y) ==
    Min(x, y) > kouleRadius /\ Max(x, y) < sideLength - kouleRadius

\* lines 773-777 from koule block j on: the loop pushing the retained blocks
RECURSIVE retainLoop(_, _, _)
retainLoop(s, j, nextStart) ==
    IF j >= Len(s) - 5 THEN nextStart
    ELSE retainLoop(s, j + 4,
            IF retained(At(s, j), At(s, j + 1))
            THEN nextStart \o << At(s, j), At(s, j + 1), At(s, j + 2), At(s, j + 3) >>
            ELSE nextStart)

\* lines 779-780: the ship's state is pushed
RECURSIVE shipLoop(_, _, _)
shipLoop(s, j, nextStart) ==
    IF j >= Len(s) THEN nextStart
    ELSE shipLoop(s, j + 1, Append(nextStart, At(s, j)))

\* lines 771-780: nextStart of the goal state s
reduceLevel(s) == shipLoop(s, Len(s) - 5, retainLoop(s, 0, << >>))

\* pushPath putting the path in front
pushPathFront(sol, path) == << [path EXCEPT !.interpolated = TRUE] >> \o sol

\* pushPath dropping what the vector held
pushPathAlone(sol, path) == << [path EXCEPT !.interpolated = TRUE] >>

\* lines 765-766 and 795-796: interpolate the path and push it
pushPath(sol, path) == Append(sol, [path EXCEPT !.interpolated = TRUE])

\* the koule blocks and ship blocks of the states a planner may end in
KouleBlocks ==
    { << 500, 480, 30, -20 >>,     \* well inside
      << 16, 984, 40, 50 >>,       \* just inside the margin
      << 15, 400, -100, 0 >>,      \* on the margin
      << 985, 300, 80, 0 >>,       \* on the far margin
      << 700, 1003, 0, 120 >> }    \* past the margin

ShipBlocks == { << 500, 500, 10, -10, 50 >>, << 300, 650, -40, 0, -120 >> }

RECURSIVE KouleVectors(_)
KouleVectors(n) ==
    IF n = 0 THEN { << >> }
    ELSE { v \o b : v \in KouleVectors(n - 1), b \in KouleBlocks }

LevelStates(n) == { v \o sh : v \in KouleVectors(n), sh \in ShipBlocks }

\* what ss->solve(timeAttempt) may leave in the problem definition of an
\* n-koule instance: an exact solution ends in a goal state, an approximate
\* one does not, and without a solution getSolutionPath() is null
solveOutcomes(n, depth) ==
    { [status |-> "exact",
       path |-> << [n |-> n, final |-> f, approximate |-> FALSE,
                    interpolated |-> FALSE, depth |-> depth] >>] :
         f \in { g \in LevelStates(n) : isSatisfied(g) } }
    \cup
    { [status |-> "approximate",
       path |-> << [n |-> n, final |-> f, approximate |-> TRUE,
                    interpolated |-> FALSE, depth |-> depth] >>] :
         f \in { g \in LevelStates(n) : ~isSatisfied(g) } }
    \cup
    { [status |-> "none", path |-> << >>] }

\* the test of line 763 never taken
acceptedAsFinalNever(status) == status = "approximate" /\ numAttempts > 1

\* line 763: the solution of this status ends the recursion
acceptedAsFinal(status) == status = "approximate"

\* a frame entering planAllLevelsRecursive(ss, ...)
newFrame(n, start) ==
    [n |-> n, start |-> start, at |-> "loop", i |-> 0, status |-> "none",
     path |-> << >>, s |-> << >>, nextStart |-> << >>]

Top == stack[Len(stack)]
SetTop(f) == [stack EXCEPT ![Len(stack)] = f]
Pop == SubSeq(stack, 1, Len(stack) - 1)

\* the start state of main's instance: koules inside the arena
InitPlan ==
    /\ mainPc = "start"
    /\ \E n \in 1..MaxKoules :
         \E st \in { g \in LevelStates(n) :
                       \A k \in 0..(n - 1) : retained(At(g, 4 * k), At(g, 4 * k + 1)) } :
            stack = << newFrame(n, st) >>
    /\ solution = << >>
    /\ out = << >>
    /\ setups = {}
    /\ levelLog = << >>
    /\ SampleOff
    /\ CollOff
    /\ CallOff

\* lines 806-807: planAllLevels calls planAllLevelsRecursive(&ss, ...)
PlanAllLevels ==
    /\ mainPc = "start"
    /\ mainPc' = "running"
    /\ UNCHANGED << stack, solution, out, setups, levelLog >>
    /\ UNCHANGED << sampleVars, collVars, callVars >>

\* the frame f leaves the body of the loop without returning: ++i, and when
\* the loop is over the function returns (line 801)
endAttempt(f) ==
    IF f.i + 1 < numAttempts
    THEN [stk |-> SetTop([f EXCEPT !.at = "loop", !.i = f.i + 1]), returns |-> FALSE]
    ELSE [stk |-> Pop, returns |-> TRUE]

\* the caller's state once the top frame returned
afterReturn(stk) ==
    IF stk = << >> THEN "returned" ELSE "running"

\* lines 749-756: one attempt: clear, solve, and the continue of line 756
Solve ==
    /\ mainPc = "running"
    /\ stack # << >>
    /\ Top.at = "loop"
    /\ Top.i < numAttempts
    /\ \E o \in solveOutcomes(Top.n, Len(stack)) :
         /\ solution' = << >>
         /\ levelLog' = Append(levelLog, [depth |-> Len(stack), n |-> Top.n,
                                          status |-> o.status])
         /\ IF o.status # "exact" /\ numAttempts > 1
            THEN LET e == endAttempt([Top EXCEPT !.status = o.status, !.path = o.path])
                 IN /\ stack' = e.stk
                    /\ mainPc' = IF e.returns THEN afterReturn(e.stk) ELSE mainPc
            ELSE /\ stack' = SetTop([Top EXCEPT !.status = o.status, !.path = o.path,
                                               !.at = "solved"])
                 /\ UNCHANGED mainPc
    /\ UNCHANGED << out, setups >>
    /\ UNCHANGED << sampleVars, collVars, callVars >>

\* lines 758-761: the last state of the solution path is read; reading
\* through a null path faults
ReadPath ==
    /\ mainPc = "running"
    /\ stack # << >>
    /\ Top.at = "solved"
    /\ IF Top.path = << >>
       THEN /\ mainPc' = "crashed"
            /\ UNCHANGED stack
       ELSE /\ stack' = SetTop([Top EXCEPT !.at = "path"])
            /\ UNCHANGED mainPc
    /\ UNCHANGED << solution, out, setups, levelLog >>
    /\ UNCHANGED << sampleVars, collVars, callVars >>

\* lines 763-770: an approximate solution is pushed and the function returns
AcceptApproximate ==
    /\ mainPc = "running"
    /\ stack # << >>
    /\ Top.at = "path"
    /\ acceptedAsFinal(Top.status)
    /\ solution' = pushPath(solution, Top.path[1])
    /\ stack' = Pop
    /\ mainPc' = afterReturn(Pop)
    /\ UNCHANGED << out, setups, levelLog >>
    /\ UNCHANGED << sampleVars, collVars, callVars >>

\* lines 771-782: s, nextStart and the assertion
Reduce ==
    /\ mainPc = "running"
    /\ stack # << >>
    /\ Top.at = "path"
    /\ ~acceptedAsFinal(Top.status)
    /\ LET s == Top.path[1].final
           nextStart == reduceLevel(s)
       IN /\ stack' = SetTop([Top EXCEPT !.s = s, !.nextStart = nextStart,
                                         !.at = "reduced"])
          /\ mainPc' = IF Len(nextStart) < Len(s) THEN mainPc ELSE "aborted"
    /\ UNCHANGED << solution, out, setups, levelLog >>
    /\ UNCHANGED << sampleVars, collVars, callVars >>

\* lines 784-789: koules remain: koulesSetup(numKoules, plannerName,
\* nextStart) and the recursive call
Descend ==
    /\ mainPc = "running"
    /\ stack # << >>
    /\ Top.at = "reduced"
    /\ LET numKoules == (Len(Top.nextStart) - 5) \div 4
       IN /\ numKoules > 0
          /\ stack' = Append(SetTop([Top EXCEPT !.at = "called"]),
                             newFrame(numKoules, Top.nextStart))
          /\ setups' = setups \cup { Len(stack) }
    /\ UNCHANGED << mainPc, solution, out, levelLog >>
    /\ UNCHANGED << sampleVars, collVars, callVars >>

\* lines 793-799 with numKoules = 0: the last level
FinishLast ==
    /\ mainPc = "running"
    /\ stack # << >>
    /\ Top.at = "reduced"
    /\ (Len(Top.nextStart) - 5) \div 4 = 0
    /\ solution' = pushPath(solution, Top.path[1])
    /\ stack' = Pop
    /\ mainPc' = afterReturn(Pop)
    /\ UNCHANGED << out, setups, levelLog >>
    /\ UNCHANGED << sampleVars, collVars, callVars >>

\* lines 790-799 after the recursive call returned
AfterChild ==
    /\ mainPc = "running"
    /\ stack # << >>
    /\ Top.at = "called"
    /\ setups' = IF Len(solution) = 0 THEN setups \ { Len(stack) } ELSE setups
    /\ IF Len(solution) # 0
       THEN /\ solution' = pushPath(solution, Top.path[1])
            /\ stack' = Pop
            /\ mainPc' = afterReturn(Pop)
       ELSE LET e == endAttempt(Top)
            IN /\ stack' = e.stk
               /\ mainPc' = IF e.returns THEN afterReturn(e.stk) ELSE mainPc
               /\ UNCHANGED solution
    /\ UNCHANGED << out, levelLog >>
    /\ UNCHANGED << sampleVars, collVars, callVars >>

\* the paths of sol from the last to the first (lines 811-812)
RECURSIVE reversed(_)
reversed(sol) ==
    IF sol = << >> THEN << >>
    ELSE << sol[Len(sol)] >> \o reversed(SubSeq(sol, 1, Len(sol) - 1))

\* lines 808-814: the solution is printed when there is one
WriteOutput ==
    /\ mainPc = "returned"
    /\ mainPc' = "written"
    /\ out' = IF Len(solution) # 0 THEN reversed(solution) ELSE out
    /\ UNCHANGED << stack, solution, setups, levelLog >>
    /\ UNCHANGED << sampleVars, collVars, callVars >>

NextPlan ==
    \/ PlanAllLevels
    \/ Solve
    \/ ReadPath
    \/ AcceptApproximate
    \/ Reduce
    \/ Descend
    \/ FinishLast
    \/ AfterChild
    \/ WriteOutput

SpecPlan == InitPlan /\ [][NextPlan]_vars

(***************************************************************************)
(* Claims about the level reduction.                                       *)
(***************************************************************************)
\* C4: a sub-problem derived from a level's solution has strictly fewer
\* koules than its parent: the assertion of line 782 never fails, every
\* frame has fewer koules than its caller, and the depth of the recursion
\* is at most the koule count of the initial instance.
C4_MonotonicRecursion ==
    /\ mainPc # "aborted"
    /\ \A d \in 1..Len(stack) :
          /\ stack[d].at \in { "reduced", "called" }
                => Len(stack[d].nextStart) < Len(stack[d].s)
          /\ d > 1 => stack[d].n < stack[d - 1].n
          /\ d <= stack[1].n
    /\ \A k \in 1..Len(levelLog) : levelLog[k].depth <= levelLog[1].n

C4_Witness ==
    /\ Len(stack) >= 2
    /\ Len(stack) = stack[1].n
    /\ Top.at = "reduced"
    /\ Len(Top.nextStart) = 5

\* C5: a level at which the planner found no solution returns normally,
\* without reading the solution path: it does not end in the fault of a
\* read through the null path.
C5_NoSolutionReturnsEmpty ==
    (\E k \in 1..Len(levelLog) : levelLog[k].status = "none")
        => mainPc # "crashed"

\* the koules of s strictly inside the margin
InsideMargin(s) ==
    { k \in 0..(NumKoulesOf(s) - 1) :
        /\ At(s, 4 * k) > kouleRadius
        /\ At(s, 4 * k + 1) > kouleRadius
        /\ At(s, 4 * k) < sideLength - kouleRadius
        /\ At(s, 4 * k + 1) < sideLength - kouleRadius }

\* t holds the blocks of the koules of s strictly inside the margin, in
\* their order, then the ship's 5 values
IsReductionOf(t, s) ==
    LET K == InsideMargin(s)
        rank(k) == Cardinality({ j \in K : j < k })
    IN /\ Len(t) = 4 * Cardinality(K) + 5
       /\ \A k \in K : \A c \in 0..3 :
             At(t, 4 * rank(k) + c) = At(s, 4 * k + c)
       /\ \A c \in 0..4 :
             At(t, 4 * Cardinality(K) + c) = At(s, 4 * NumKoulesOf(s) + c)

MaxDepth == IF levelLog = << >> THEN 0 ELSE levelLog[Len(levelLog)].depth

\* sol holds one path per level 1..MaxDepth; the path of the deepest level
\* is approximate or retains no koule; every other is exact and retains
\* the koules of the next level; the path of level 1 plans the initial
\* instance
CompleteChain(sol) ==
    /\ Len(sol) = MaxDepth
    /\ \A d \in 1..MaxDepth :
          \E k \in 1..Len(sol) :
             /\ sol[k].depth = d
             /\ sol[k].interpolated
             /\ d = 1 => sol[k].n = levelLog[1].n
             /\ IF d = MaxDepth
                THEN \/ sol[k].approximate
                     \/ /\ isSatisfied(sol[k].final)
                        /\ InsideMargin(sol[k].final) = {}
                ELSE /\ ~sol[k].approximate
                     /\ isSatisfied(sol[k].final)
                     /\ \E j \in 1..Len(sol) :
                           /\ sol[j].depth = d + 1
                           /\ sol[j].n = Cardinality(InsideMargin(sol[k].final))
                           /\ sol[j].n >= 1

C8_SegmentOrder ==
    /\ mainPc \in { "returned", "written" } =>
          /\ \A k \in 1..Len(solution) : solution[k].depth = Len(solution) - k + 1
          /\ \A k \in 1..(Len(solution) - 1) : solution[k].n < solution[k + 1].n
    /\ mainPc = "written" =>
          /\ Len(out) = Len(solution)
          /\ \A k \in 1..Len(out) : out[k].depth = k
          /\ \A k \in 1..(Len(out) - 1) : out[k + 1].n < out[k].n

C8_Witness ==
    /\ mainPc = "written"
    /\ Len(out) >= 2
    /\ ~out[Len(out)].approximate
    /\ out[1].n = MaxKoules

\* C9: a level whose only solution is approximate accepts it as final: no
\* sub-problem is created and no recursive call made for it, and the list
\* it returns holds its approximate path and nothing else of this level
\* or below.
C9_ApproximateIsFinal ==
    /\ \A d \in 1..Len(stack) :
          stack[d].status = "approximate" =>
             /\ stack[d].at \in { "solved", "path" }
             /\ d = Len(stack)
             /\ ~(d \in setups)
    /\ \A k \in 1..Len(levelLog) :
          levelLog[k].status = "approximate" =>
             /\ k = Len(levelLog)
             /\ (Len(stack) < levelLog[k].depth =>
                   /\ Len(solution) >= 1
                   /\ solution[1].approximate
                   /\ solution[1].depth = levelLog[k].depth
                   /\ \A j \in 2..Len(solution) :
                         solution[j].depth < levelLog[k].depth)

C9_Witness ==
    /\ mainPc = "returned"
    /\ Len(levelLog) >= 2
    /\ levelLog[Len(levelLog)].status = "approximate"
    /\ Len(solution) = Len(levelLog)

(***************************************************************************)
(* checkCollision on its own (KoulesStatePropagator).                      *)
(***************************************************************************)
\* the offsets of body a from body b, and the velocity components
CollOffsets == { -2, 0, 1, 3 }
CollVelocities == { -3, 0, 2 }

\* scratch vectors q: two koules and a ship far from them, or a koule and
\* the ship, within collision distance of each other
CollStates ==
    { << 500 + dx, 500 + dy, avx, avy, 500, 500, bvx, bvy, 900, 900, 0, 0, 0 >> :
        dx \in CollOffsets, dy \in CollOffsets,
        avx \in CollVelocities, avy \in CollVelocities,
        bvx \in CollVelocities, bvy \in CollVelocities }
    \cup
    { << 500 + dx, 500 + dy, avx, avy, 500, 500, bvx, bvy, 0 >> :
        dx \in CollOffsets, dy \in CollOffsets,
        avx \in CollVelocities, avy \in CollVelocities,
        bvx \in CollVelocities, bvy \in CollVelocities }

InitColl ==
    /\ collPc = "call"
    /\ collQ \in CollStates
    /\ collPair = << 0, 1 >>
    /\ collOut = [hit |-> FALSE]
    /\ SampleOff
    /\ PlanOff
    /\ CallOff

\* one call checkCollision(i, j, dt) from update, dt of one integration
\* step
CheckCollision ==
    /\ collPc = "call"
    /\ collOut' = checkCollision(collQ, collPair[1], collPair[2],
                                 << integrationStepSize, TimeScale >>,
                                 NumKoulesOf(collQ))
    /\ collPc' = "done"
    /\ UNCHANGED << collQ, collPair >>
    /\ UNCHANGED << sampleVars, planVars, callVars >>

NextColl == CheckCollision

SpecColl == InitColl /\ [][NextColl]_vars

\* the bodies and masses of the call observed
CollA == Block(collQ, collPair[1])
CollB == Block(collQ, collPair[2])
CollMassA == getMass(NumKoulesOf(collQ), collPair[1])
CollMassB == getMass(NumKoulesOf(collQ), collPair[2])

\* C10: for a pair that checkCollision resolves, the new velocities
\* (aNewNum / den, bNewNum / den) conserve the pair's momentum in x and in
\* y and its kinetic energy, and leave the tangential components as they
\* were; in exact arithmetic the residuals of the three assertions are 0.
C10_CollisionConservation ==
    (collPc = "done" /\ collOut.hit) =>
        \A c \in { collOut.resp } :
           /\ CollMassA * (CollA[3] * c.den - c.aNewNum[1])
                + CollMassB * (CollB[3] * c.den - c.bNewNum[1]) = 0
           /\ CollMassA * (CollA[4] * c.den - c.aNewNum[2])
                + CollMassB * (CollB[4] * c.den - c.bNewNum[2]) = 0
           /\ CollMassA * ((CollA[3] * CollA[3] + CollA[4] * CollA[4]) * c.den * c.den
                           - c.aNewNum[1] * c.aNewNum[1] - c.aNewNum[2] * c.aNewNum[2])
                + CollMassB * ((CollB[3] * CollB[3] + CollB[4] * CollB[4]) * c.den * c.den
                           - c.bNewNum[1] * c.bNewNum[1] - c.bNewNum[2] * c.bNewNum[2]) = 0
           /\ (-c.dy) * c.aNewNum[1] + c.dx * c.aNewNum[2]
                = ((-c.dy) * CollA[3] + c.dx * CollA[4]) * c.den
           /\ (-c.dy) * c.bNewNum[1] + c.dx * c.bNewNum[2]
                = ((-c.dy) * CollB[3] + c.dx * CollB[4]) * c.den

\* an oblique collision of a koule and the ship that changes both
\* velocities
C10_Witness ==
    /\ collPc = "done"
    /\ collOut.hit
    /\ CollMassA # CollMassB
    /\ collOut.resp.dx # 0
    /\ collOut.resp.dy # 0
    /\ collOut.resp.aT # 0
    /\ collOut.resp.aNewNum[1] # CollA[3] * collOut.resp.den
    /\ collOut.resp.bNewNum[2] # CollB[4] * collOut.resp.den

(***************************************************************************)
(* propagate on its own: calls in sequence on one propagator, each with    *)
(* arguments of its own (KoulesStatePropagator).                           *)
(***************************************************************************)
\* start states: a koule away from the ship or about to hit it, the ship
\* at rest or moving, headings inside and outside [-pi, pi]
PropHeadings == { 0, PiU \div 2, PiU - 5, 5 - PiU, PiU, 2 * PiU + 50 }

PropStarts ==
    { << k[1], k[2], k[3], k[4], 500, 500, sv, 0, th >> :
        k \in { << 300, 300, 0, 0 >>, << 540, 500, -200, 0 >> },
        sv \in { 0, 100 },
        th \in PropHeadings }

PropControls == { << 0, 0 >>, << shipVmax, 0 >>, << 0, -shipVmax >> }
PropDurations == { integrationStepSize, propagationStepSize }

PropArgs ==
    { [start |-> st, control |-> c, duration |-> d] :
        st \in PropStarts, c \in PropControls, d \in PropDurations }

InitProp ==
    /\ fnPc = "call"
    /\ fn = "propagate"
    /\ fnArgs \in PropArgs
    /\ fnOut = << >>
    /\ fnScratch = newScratch(NumKoulesOf(fnArgs.start))
    /\ SampleOff
    /\ PlanOff
    /\ CollOff

\* propagate(start, control, duration, result); on is what the scratch
\* members held when the call began
Propagate ==
    /\ fnPc = "call"
    /\ fn = "propagate"
    /\ \E p \in { propagate(fnScratch, fnArgs.start, fnArgs.control,
                            fnArgs.duration) } :
          /\ fnOut' = [result |-> p.result, on |-> fnScratch]
          /\ fnScratch' = p.m
    /\ fnPc' = "done"
    /\ UNCHANGED << fn, fnArgs >>
    /\ UNCHANGED << sampleVars, planVars, collVars >>

\* the caller makes its next call on the same propagator
NextPropagate ==
    /\ fnPc = "done"
    /\ fn = "propagate"
    /\ fnArgs' \in PropArgs
    /\ fnOut' = << >>
    /\ fnPc' = "call"
    /\ UNCHANGED << fn, fnScratch >>
    /\ UNCHANGED << sampleVars, planVars, collVars >>

NextProp == Propagate \/ NextPropagate

SpecProp == InitProp /\ [][NextProp]_vars

\* the command u that the last ode of the call wrote into qdot, and what
\* it was derived from
PropOffset == 4 * NumKoulesOf(fnArgs.start)
PropU == << At(fnScratch.qdot, PropOffset + 2), At(fnScratch.qdot, PropOffset + 3),
            At(fnScratch.qdot, PropOffset + 4) >>
PropHeading == At(fnArgs.start, PropOffset + 4)
PropDv == << fnArgs.control[1] - At(fnArgs.start, PropOffset + 2),
             fnArgs.control[2] - At(fnArgs.start, PropOffset + 3) >>
PropFar == PropDv[1] * PropDv[1] + PropDv[2] * PropDv[2] > shipDelta * shipDelta
PropAngle == signedSO2Distance(Atan2U(PropDv[2], PropDv[1]), PropHeading)

\* C11: the command of a call never has thrust and torque together; it is
\* zero when control - shipVelocity is no longer than shipDelta, full
\* thrust along the start heading without torque when the angular
\* difference is within shipEps, and otherwise no thrust and a torque of
\* shipRotVel in the sign of the angular difference.
C11_BangBang ==
    fnPc = "done" =>
        /\ ~((PropU[1] # 0 \/ PropU[2] # 0) /\ PropU[3] # 0)
        /\ ~PropFar => PropU = << 0, 0, 0 >>
        /\ (PropFar /\ Abs(PropAngle) < shipEps) =>
              /\ PropU[1] = RDiv(shipAcceleration * CosU(PropHeading), PosScale)
              /\ PropU[2] = RDiv(shipAcceleration * SinU(PropHeading), PosScale)
              /\ PropU[3] = 0
        /\ (PropFar /\ Abs(PropAngle) >= shipEps) =>
              /\ PropU[1] = 0
              /\ PropU[2] = 0
              /\ PropU[3] = Sgn(PropAngle) * shipRotVel

\* a call that turns the ship clockwise
C11_Witness ==
    /\ fnPc = "done"
    /\ PropFar
    /\ PropAngle < 0
    /\ PropU = << 0, 0, -shipRotVel >>

\* C12: the ship heading of the result of a call lies in (-pi, pi].
C12_HeadingNormalized ==
    fnPc = "done" =>
        /\ At(fnOut.result, PropOffset + 4) > -PiU
        /\ At(fnOut.result, PropOffset + 4) <= PiU

\* a call whose integration left the heading outside (-pi, pi]
C12_Witness ==
    /\ fnPc = "done"
    /\ PropU[3] # 0
    /\ At(fnScratch.q, PropOffset + 4) > PiU
    /\ At(fnOut.result, PropOffset + 4) < 0

\* C14: the result of a call is the result of the same call on a newly
\* constructed propagator, whatever earlier calls left in q, qdot and
\* hasCollision (the start state is a const argument, left as it is).
C14_PropagateDeterministic ==
    fnPc = "done" =>
        \A clean \in { propagate(newScratch(NumKoulesOf(fnArgs.start)),
                                 fnArgs.start, fnArgs.control, fnArgs.duration) } :
           /\ fnOut.result = clean.result
           /\ fnScratch = clean.m

\* a call made on scratch members that an earlier call with a collision
\* and other arguments left behind
C14_Witness ==
    /\ fnPc = "done"
    /\ \E b \in 0..NumKoulesOf(fnArgs.start) : At(fnOut.on.hasCollision, b)
    /\ fnOut.on.q # fnArgs.start
    /\ \E k \in 1..Len(fnOut.on.qdot) : fnOut.on.qdot[k] # 0
    /\ fnOut.result # fnArgs.start
    /\ ~(\E b \in 0..NumKoulesOf(fnArgs.start) : At(fnScratch.hasCollision, b))

(***************************************************************************)
(* The goal region and the retention test on one state (KoulesGoal,        *)
(* planAllLevelsRecursive).                                                *)
(***************************************************************************)
\* coordinates of a koule: outside the arena, within kouleRadius -
\* threshold_ of an edge, on that line, inside the margin, on the margin,
\* just inside it, far from every edge
GoalCoordinates ==
    { -10, 3, kouleRadius - threshold_, 9, kouleRadius, kouleRadius + 1, 500,
      sideLength - kouleRadius - 1, sideLength - kouleRadius, sideLength - 3 }
GoalCoordinatesOfTwo == { 3, kouleRadius, kouleRadius + 1, 500, sideLength - kouleRadius }
GoalShips == { << 500, 500, 0, 0, 0 >>, << 40, 960, -200, 300, PiU \div 2 >> }

GoalStates ==
    { << x, y, v[1], v[2] >> \o sh :
        x \in GoalCoordinates, y \in GoalCoordinates,
        v \in { << 0, 0 >>, << -700, 1200 >> }, sh \in GoalShips }
    \cup
    { << x0, y0, 100, -100, x1, y1, 0, 50 >> \o sh :
        x0 \in GoalCoordinatesOfTwo, y0 \in GoalCoordinatesOfTwo,
        x1 \in GoalCoordinatesOfTwo, y1 \in GoalCoordinatesOfTwo, sh \in GoalShips }

InitGoal ==
    /\ fnPc = "call"
    /\ fn = "distanceGoal"
    /\ fnArgs \in GoalStates
    /\ fnOut = << >>
    /\ fnScratch = newScratch(0)
    /\ SampleOff
    /\ PlanOff
    /\ CollOff

\* distanceGoal(st) and isSatisfied(st) of the goal, and the start state
\* that lines 771-781 derive from st
EvalGoal ==
    /\ fnPc = "call"
    /\ fn = "distanceGoal"
    /\ fnOut' = [distance |-> distanceGoal(fnArgs),
                 satisfied |-> isSatisfied(fnArgs),
                 nextStart |-> reduceLevel(fnArgs)]
    /\ fnPc' = "done"
    /\ UNCHANGED << fn, fnArgs, fnScratch >>
    /\ UNCHANGED << sampleVars, planVars, collVars >>

NextGoal == EvalGoal

SpecGoal == InitGoal /\ [][NextGoal]_vars

\* the distance from koule n of state s to the nearest edge
EdgeDistance(s, n) ==
    CHOOSE d \in { At(s, 4 * n), sideLength - At(s, 4 * n),
                   At(s, 4 * n + 1), sideLength - At(s, 4 * n + 1) } :
        \A e \in { At(s, 4 * n), sideLength - At(s, 4 * n),
                   At(s, 4 * n + 1), sideLength - At(s, 4 * n + 1) } : d <= e

\* the least edge distance over the koules of s
LeastEdgeDistance(s) ==
    CHOOSE d \in { EdgeDistance(s, n) : n \in 0..(NumKoulesOf(s) - 1) } :
        \A n \in 0..(NumKoulesOf(s) - 1) : d <= EdgeDistance(s, n)

\* C13: for a state with at least one koule distanceGoal returns
\* max(0, min over the koules of (edge distance - kouleRadius + threshold)),
\* a value that is never negative and that the koule positions determine.
C13_GoalDistance ==
    fnPc = "done" /\ fn = "distanceGoal" =>
        /\ fnOut.distance >= 0
        /\ fnOut.distance =
              Max(0, LeastEdgeDistance(fnArgs) - kouleRadius + threshold_)

\* a state of two koules whose distance is given by the second koule and
\* one whose distance is clamped
C13_Witness ==
    /\ fnPc = "done"
    /\ fn = "distanceGoal"
    /\ \/ /\ NumKoulesOf(fnArgs) = 2
          /\ EdgeDistance(fnArgs, 1) < EdgeDistance(fnArgs, 0)
          /\ fnOut.distance = 1 + threshold_
       \/ /\ LeastEdgeDistance(fnArgs) < kouleRadius - threshold_
          /\ fnOut.distance = 0

\* C20: a state that the goal accepts holds a koule that the retention
\* test drops: the state derived from it has fewer koules.
C20_GoalImpliesDrop ==
    (fnPc = "done" /\ fn = "distanceGoal" /\ fnOut.satisfied) =>
        /\ \E n \in 0..(NumKoulesOf(fnArgs) - 1) :
              ~(/\ Min(At(fnArgs, 4 * n), At(fnArgs, 4 * n + 1)) > kouleRadius
                /\ Max(At(fnArgs, 4 * n), At(fnArgs, 4 * n + 1))
                      < sideLength - kouleRadius)
        /\ NumKoulesOf(fnOut.nextStart) < NumKoulesOf(fnArgs)

\* an accepted state with a koule exactly on the margin and another
\* that stays
C20_Witness ==
    /\ fnPc = "done"
    /\ fn = "distanceGoal"
    /\ fnOut.satisfied
    /\ fnOut.distance = threshold_
    /\ NumKoulesOf(fnArgs) = 2
    /\ NumKoulesOf(fnOut.nextStart) = 1

(***************************************************************************)
(* signedSO2Distance on its own.                                           *)
(***************************************************************************)
\* angles of [-pi, pi], in steps of pi / 40
SO2Angles == { 5 * k : k \in -(PiU \div 5)..(PiU \div 5) }

InitSO2 ==
    /\ fnPc = "call"
    /\ fn = "signedSO2Distance"
    /\ fnArgs \in SO2Angles \X SO2Angles
    /\ fnOut = << >>
    /\ fnScratch = newScratch(0)
    /\ SampleOff
    /\ PlanOff
    /\ CollOff

\* signedSO2Distance(x, y)
EvalSO2 ==
    /\ fnPc = "call"
    /\ fn = "signedSO2Distance"
    /\ fnOut' = signedSO2Distance(fnArgs[1], fnArgs[2])
    /\ fnPc' = "done"
    /\ UNCHANGED << fn, fnArgs, fnScratch >>
    /\ UNCHANGED << sampleVars, planVars, collVars >>

NextSO2 == EvalSO2

SpecSO2 == InitSO2 /\ [][NextSO2]_vars

\* C16 as claimed: for x and y of [-pi, pi] signedSO2Distance(x, y) lies in
\* (-pi, pi].
C16_HalfOpenRange ==
    (fnPc = "done" /\ fn = "signedSO2Distance") =>
        fnOut > -PiU /\ fnOut <= PiU

\* C16 as amended: for x and y of [-pi, pi] signedSO2Distance(x, y) lies in
\* [-pi, pi] and differs from x - y by a multiple of 2 pi; it is -pi
\* exactly when x - y is -pi.
C16_ClosedRange ==
    (fnPc = "done" /\ fn = "signedSO2Distance") =>
        /\ fnOut >= -PiU /\ fnOut <= PiU
        /\ (fnOut - (fnArgs[1] - fnArgs[2])) % (2 * PiU) = 0
        /\ (fnOut = -PiU) <=> (fnArgs[1] - fnArgs[2] = -PiU)

\* a difference below -pi, wrapped
C16_Witness ==
    /\ fnPc = "done"
    /\ fn = "signedSO2Distance"
    /\ fnArgs[1] - fnArgs[2] < -PiU
    /\ fnOut > 0

(***************************************************************************)
(* steer on its own.                                                       *)
(***************************************************************************)
\* states of one and of two koules, no koule at the ship's position
SteerStates ==
    { k1 \o << sx, sy, 0, 0, 0 >> :
        k1 \in { << 300, 200, 0, 0 >>,
                 << 300, 200, 0, 0, 700, 100, 0, 0 >> },
        sx \in { 500, 400 }, sy \in { 500, 600 } }

\* offsets of the target from the ship: none, along an axis, and the
\* multiples of (3, 4) whose length is a whole number
SteerOffsets ==
    { << 0, 0 >>, << 200, 0 >>, << 0, -100 >>,
      << 300, 400 >>, << -300, 400 >>, << 300, -400 >>, << -400, -300 >>,
      << 30, -40 >> }

\* draws of rng_.uniformReal(bounds.low[0], bounds.high[0])
SteerSpeeds == { shipVmin, shipVmax \div 2, shipVmax }

\* draws of the direction sample() uses
SteerDirections == { 0, PiU \div 2 }

InitSteer ==
    /\ fnPc = "call"
    /\ fn = "steer"
    /\ fnArgs \in
         { [ state |-> st, x |-> At(st, Len(st) - 5) + o[1],
             y |-> At(st, Len(st) - 4) + o[2], v |-> sp, theta |-> th ] :
             st \in SteerStates, o \in SteerOffsets,
             sp \in SteerSpeeds, th \in SteerDirections }
    /\ fnOut = << >>
    /\ fnScratch = newScratch(0)
    /\ SampleOff
    /\ PlanOff
    /\ CollOff

\* steer(control, state, x, y)
Steer ==
    /\ fnPc = "call"
    /\ fn = "steer"
    /\ fnOut' = steer(fnArgs.state, fnArgs.x, fnArgs.y, fnArgs.v,
                      fnArgs.theta)
    /\ fnPc' = "done"
    /\ UNCHANGED << fn, fnArgs, fnScratch >>
    /\ UNCHANGED << sampleVars, planVars, collVars >>

NextSteer == Steer

SpecSteer == InitSteer /\ [][NextSteer]_vars

\* target minus ship position, the ship position read at offset
\* 4 * numKoules of the state
SteerDx == fnArgs.x - fnArgs.state[4 * ((Len(fnArgs.state) - 5) \div 4) + 1]

SteerDy == fnArgs.y - fnArgs.state[4 * ((Len(fnArgs.state) - 5) \div 4) + 2]

\* C15: when the target is away from the ship, steer returns a positive
\* multiple of (target - ship position) whose magnitude lies in
\* [shipVmin, shipVmax].
C15_SteerTowardsTarget ==
    (fnPc = "done" /\ fn = "steer"
        /\ SteerDx * SteerDx + SteerDy * SteerDy > 0) =>
        /\ fnOut[1] * SteerDy - fnOut[2] * SteerDx = 0
        /\ fnOut[1] * SteerDx + fnOut[2] * SteerDy > 0
        /\ fnOut[1] * fnOut[1] + fnOut[2] * fnOut[2] >= shipVmin * shipVmin
        /\ fnOut[1] * fnOut[1] + fnOut[2] * fnOut[2] <= shipVmax * shipVmax

\* two koules, a target off both axes, an interior speed
C15_Witness ==
    /\ fnPc = "done"
    /\ fn = "steer"
    /\ Len(fnArgs.state) = 13
    /\ SteerDx = -300
    /\ SteerDy = 400
    /\ fnArgs.v = shipVmax \div 2
    /\ fnOut = << -150, 200 >>

(***************************************************************************)
(* One integration sub-step: ode followed by update.                       *)
(***************************************************************************)
\* two koules and the ship, close together or apart
UpdateStates ==
    { << 500, 500, vx0, 0, k1x, 500, vx1, 0, 510, sy, 0, svy, 0 >> :
        vx0 \in { 0, 200, 400 }, vx1 \in { 0, -200, -400 },
        k1x \in { 520, 700 }, sy \in { 520, 800 },
        svy \in { 0, -300, -600 } }

\* bang-bang commands: none, and a turn
UpdateCommands == { << 0, 0, 0 >>, << 0, 0, shipRotVel >> }

InitUpdate ==
    /\ fnPc = "call"
    /\ fn = "update"
    /\ fnArgs \in [ q : UpdateStates, u : UpdateCommands ]
    /\ fnOut = << >>
    /\ fnScratch = newScratch(0)
    /\ SampleOff
    /\ PlanOff
    /\ CollOff

\* lines 412-413: ode(u); update(integrationStepSize) on q
Update ==
    /\ fnPc = "call"
    /\ fn = "update"
    /\ \E nk \in { NumKoulesOf(fnArgs.q) } :
         fnOut' = update(ode([newScratch(nk) EXCEPT !.q = fnArgs.q],
                             fnArgs.u, nk),
                         << integrationStepSize, TimeScale >>, nk)
    /\ fnPc' = "done"
    /\ UNCHANGED << fn, fnArgs, fnScratch >>
    /\ UNCHANGED << sampleVars, planVars, collVars >>

NextUpdate == Update

SpecUpdate == InitUpdate /\ [][NextUpdate]_vars

\* the pairs (a, b) in the order of the loops of lines 448-449
RECURSIVE PairsFrom(_, _, _)
PairsFrom(a, b, nk) ==
    IF a >= nk THEN << >>
    ELSE IF b > nk THEN PairsFrom(a + 1, a + 2, nk)
    ELSE << << a, b >> >> \o PairsFrom(a, b + 1, nk)

\* for each body the velocities its collisions gave it, checkCollision
\* called on the pairs in turn
RECURSIVE VelocityLog(_, _, _, _)
VelocityLog(qq, pairs, dt, nk) ==
    IF pairs = << >> THEN [ b \in 0..nk |-> {} ]
    ELSE LET c == checkCollision(qq, pairs[1][1], pairs[1][2], dt, nk)
             rest == VelocityLog(c.q, Tail(pairs), dt, nk)
         IN [ b \in 0..nk |->
                rest[b] \cup (IF c.hit /\ (b = pairs[1][1] \/ b = pairs[1][2])
                              THEN { << At(c.q, 4 * b + 2), At(c.q, 4 * b + 3) >> }
                              ELSE {}) ]

\* the velocities body b had in the sub-step: those of its collisions, or
\* the one it came with when it had none
UpdateVelocities(b) ==
    LET nk == NumKoulesOf(fnArgs.q)
        log == VelocityLog(fnArgs.q, PairsFrom(0, 1, nk),
                           << integrationStepSize, TimeScale >>, nk)
    IN IF log[b] = {}
       THEN { << At(fnArgs.q, 4 * b + 2), At(fnArgs.q, 4 * b + 3) >> }
       ELSE log[b]

\* body b moved by dt times the velocity v
MovedBy(b, v) ==
    /\ At(fnOut.q, 4 * b) - At(fnArgs.q, 4 * b)
         = TimesDt(v[1], << integrationStepSize, TimeScale >>)
    /\ At(fnOut.q, 4 * b + 1) - At(fnArgs.q, 4 * b + 1)
         = TimesDt(v[2], << integrationStepSize, TimeScale >>)

\* C19: in one sub-step (one call of update) the position of every body is
\* advanced once, by dt times one of the velocities the body had in the
\* sub-step, also when the body is in more than one pairwise collision.
C19_AdvancedOnce ==
    (fnPc = "done" /\ fn = "update") =>
        \A b \in 0..NumKoulesOf(fnArgs.q) :
           \E v \in UpdateVelocities(b) : MovedBy(b, v)

=============================================================================
